---- MODULE Spec2Model ----
(***************************************************************************)
(* A model of PyEveLiveDPS/logreader.py: the CharacterDetector registry,   *)
(* the watchdog thread that runs on_created -> addLog, the live LogReader  *)
(* cursor, the PlaybackLogReader constructor, and the game client that     *)
(* creates and appends to the log files (Spec); the scan of the log        *)
(* directory in CharacterDetector.__init__ (ScanSpec); and the patterns of *)
(* BaseLogReader applied to text (ExtractSpec).                            *)
(*                                                                         *)
(* Files are sequences of lines.  The main (Tk) thread runs readLog,       *)
(* the menu command and playbackLog one at a time; the watchdog thread     *)
(* runs addLog statement by statement and interleaves with them and with   *)
(* the client's writes.                                                    *)
(***************************************************************************)
EXTENDS Integers, Sequences, FiniteSets, TLC

\* Bounds of the model.
MaxFiles == 2
MaxEvents == 2

Characters == {"A", "B"}

None == "None"

---------------------------------------------------------------------------
\* The text of the log files.

SEPARATOR == "------------------------------------------------------------\n"
GAMELOG == "  Gamelog\n"
SESSION == "  Session Started: 2017.05.01 12:00:00\n"

ListenerLine(c) == IF c = "A" THEN "  Listener: A\n" ELSE "  Listener: B\n"

\* The i-th event line the client writes after a header.
EventLine(i) ==
    CASE i % 3 = 1 -> "[ 2017.05.01 12:00:01 ] (combat) <color=0xff00ffff><b>5</b> <color=0x77ffffff><font size=10>to</font> <b><color=0xffffffff>Rat\n"
      [] i % 3 = 2 -> "[ 2017.05.01 12:00:02 ] (combat) <color=0xff7fffff><b>+3</b><color=0x77ffffff><font size=10> energy drained from </font>Rat\n"
      [] OTHER     -> "[ 2017.05.01 12:00:03 ] (combat) <color=0xffcc0000><b>2</b> <color=0x77ffffff><font size=10>from</font> <b><color=0xffffffff>Rat\n"

\* What the client writes into a file of each kind, header first.
Kinds == {"charA", "charB", "collided", "nochar"}

Header(kind) ==
    CASE kind = "charA"    -> <<SEPARATOR, GAMELOG, ListenerLine("A"), SESSION, SEPARATOR>>
      [] kind = "charB"    -> <<SEPARATOR, GAMELOG, ListenerLine("B"), SESSION, SEPARATOR>>
      [] kind = "collided" -> <<SEPARATOR, GAMELOG, ListenerLine("A"), SESSION, SEPARATOR,
                                SEPARATOR, GAMELOG, ListenerLine("B"), SESSION, SEPARATOR>>
      [] OTHER             -> <<SEPARATOR, GAMELOG, SESSION, SEPARATOR>>

\* The lengths at which one write of the client can end while the header is
\* being written: the client writes a header block at a time, and the second
\* client of a collided file may have written only part of its block.
WritePoints(kind) ==
    CASE kind = "collided" -> {5, 7, 10}
      [] kind = "nochar"   -> {4}
      [] OTHER             -> {5}

\* The files that get event lines after the header: a client writes combat
\* events into its character's log.
HasEvents(kind) == kind \in {"charA", "charB"}

---------------------------------------------------------------------------
\* Reading a file.

\* file.readline(): the n-th line, or "" at end of file.
ReadLine(content, n) == IF n <= Len(content) THEN content[n] ELSE ""

\* re.search("(?<=Listener: ).*", line): the name, or None.
ReSearchListener(line) ==
    IF \E c \in Characters : line = ListenerLine(c)
    THEN CHOOSE c \in Characters : line = ListenerLine(c)
    ELSE None

\* re.search("(?<=Session Started: ).*", line) matches.
ReSearchSession(line) == line = SESSION

---------------------------------------------------------------------------
\* BaseLogReader: the patterns and the eight totals.

\* The number a pattern captures in a line, 0 when it does not match.
Capture(regex, line) ==
    CASE regex = "damageOut"   /\ line = EventLine(1) -> 5
      [] regex = "nosRecieved" /\ line = EventLine(2) -> 3
      [] regex = "damageIn"    /\ line = EventLine(3) -> 2
      [] OTHER -> 0

RECURSIVE SumCaptures(_, _)
SumCaptures(regex, logData) ==
    IF logData = <<>> THEN 0
    ELSE Capture(regex, Head(logData)) + SumCaptures(regex, Tail(logData))

\* LogReader.extractValues: the sum of the captures of every match.
ExtractValues(regex, logData) == SumCaptures(regex, logData)

\* BaseLogReader.readLog(logData).
BaseReadLog(logData) ==
    LET damageOut == ExtractValues("damageOut", logData)
        damageIn == ExtractValues("damageIn", logData)
        logisticsOut == ExtractValues("armorRepairedOut", logData)
                        + ExtractValues("hullRepairedOut", logData)
                        + ExtractValues("shieldBoostedOut", logData)
        logisticsIn == ExtractValues("armorRepairedIn", logData)
                       + ExtractValues("hullRepairedIn", logData)
                       + ExtractValues("shieldBoostedIn", logData)
        capTransfered == ExtractValues("capTransferedOut", logData)
        capRecieved == ExtractValues("capTransferedIn", logData)
                       + ExtractValues("nosRecieved", logData)
        capDamageDone == ExtractValues("capNeutralizedOut", logData)
                         + ExtractValues("nosRecieved", logData)
        capDamageRecieved == ExtractValues("capNeutralizedIn", logData)
                             + ExtractValues("nosTaken", logData)
    IN <<damageOut, damageIn, logisticsOut, logisticsIn, capTransfered,
         capRecieved, capDamageDone, capDamageRecieved>>

ZeroTuple == <<0, 0, 0, 0, 0, 0, 0, 0>>

---------------------------------------------------------------------------
\* BaseLogReader on text that need not end at a line end.
\*
\* Text is a sequence of tokens: the pieces of a line that the patterns tell
\* apart (the "(combat) " marker, a markup tag, a sign, a digit, the words
\* between two tags, the line end).  A read can end between any two tokens.

Tags == {"<color=0xff00ffff>", "<color=0xffcc0000>", "<color=0xffccff66>",
         "<color=0xff7fffff>", "<color=0xffe57f7f>", "<color=0x77ffffff>",
         "<color=0xffffffff>", "<font size=10>", "</font>", "<b>", "</b>"}

\* The token begins with "<" and ends with ">".
IsTag(t) == t \in Tags

IsDigit(t) == t \in {"0", "1", "2", "3", "4", "5", "6", "7", "8", "9"}

DigitValue(t) ==
    CASE t = "0" -> 0 [] t = "1" -> 1 [] t = "2" -> 2 [] t = "3" -> 3
      [] t = "4" -> 4 [] t = "5" -> 5 [] t = "6" -> 6 [] t = "7" -> 7
      [] t = "8" -> 8 [] OTHER -> 9

\* The fourteen compiled patterns, each of the shape
\*   \(combat\) <.*?MARKER><b>SIGN([0-9]+).*>QUALIFIER<
Regexes == {"damageOut", "damageIn", "armorRepairedOut", "hullRepairedOut",
            "shieldBoostedOut", "armorRepairedIn", "hullRepairedIn",
            "shieldBoostedIn", "capTransferedOut", "capNeutralizedOut",
            "nosRecieved", "capTransferedIn", "capNeutralizedIn", "nosTaken"}

\* A variant of Pattern in which the two neutralization patterns have lost
\* their color marker.
PatternNoMarker(regex) ==
    CASE regex = "damageOut"         -> [marker |-> "", sign |-> "", qualifier |-> "to"]
      [] regex = "damageIn"          -> [marker |-> "", sign |-> "", qualifier |-> "from"]
      [] regex = "armorRepairedOut"  -> [marker |-> "", sign |-> "", qualifier |-> " remote armor repaired to "]
      [] regex = "hullRepairedOut"   -> [marker |-> "", sign |-> "", qualifier |-> " remote hull repaired to "]
      [] regex = "shieldBoostedOut"  -> [marker |-> "", sign |-> "", qualifier |-> " remote shield boosted to "]
      [] regex = "armorRepairedIn"   -> [marker |-> "", sign |-> "", qualifier |-> " remote armor repaired by "]
      [] regex = "hullRepairedIn"    -> [marker |-> "", sign |-> "", qualifier |-> " remote hull repaired by "]
      [] regex = "shieldBoostedIn"   -> [marker |-> "", sign |-> "", qualifier |-> " remote shield boosted by "]
      [] regex = "capTransferedOut"  -> [marker |-> "", sign |-> "", qualifier |-> " remote capacitor transmitted to "]
      [] regex = "capNeutralizedOut" -> [marker |-> "", sign |-> "", qualifier |-> " energy neutralized "]
      [] regex = "nosRecieved"       -> [marker |-> "", sign |-> "+", qualifier |-> " energy drained from "]
      [] regex = "capTransferedIn"   -> [marker |-> "", sign |-> "", qualifier |-> " remote capacitor transmitted by "]
      [] regex = "capNeutralizedIn"  -> [marker |-> "", sign |-> "", qualifier |-> " energy neutralized "]
      [] OTHER                       -> [marker |-> "", sign |-> "-", qualifier |-> " energy drained to "]

\* The pattern BaseLogReader.__init__ compiles under each name: the text
\* that must end the tag before "<b>", the sign before the digits, and the
\* words between ">" and "<" after them.
Pattern(regex) ==
    CASE regex = "damageOut"         -> [marker |-> "", sign |-> "", qualifier |-> "to"]
      [] regex = "damageIn"          -> [marker |-> "", sign |-> "", qualifier |-> "from"]
      [] regex = "armorRepairedOut"  -> [marker |-> "", sign |-> "", qualifier |-> " remote armor repaired to "]
      [] regex = "hullRepairedOut"   -> [marker |-> "", sign |-> "", qualifier |-> " remote hull repaired to "]
      [] regex = "shieldBoostedOut"  -> [marker |-> "", sign |-> "", qualifier |-> " remote shield boosted to "]
      [] regex = "armorRepairedIn"   -> [marker |-> "", sign |-> "", qualifier |-> " remote armor repaired by "]
      [] regex = "hullRepairedIn"    -> [marker |-> "", sign |-> "", qualifier |-> " remote hull repaired by "]
      [] regex = "shieldBoostedIn"   -> [marker |-> "", sign |-> "", qualifier |-> " remote shield boosted by "]
      [] regex = "capTransferedOut"  -> [marker |-> "", sign |-> "", qualifier |-> " remote capacitor transmitted to "]
      [] regex = "capNeutralizedOut" -> [marker |-> "ff7fffff", sign |-> "", qualifier |-> " energy neutralized "]
      [] regex = "nosRecieved"       -> [marker |-> "", sign |-> "+", qualifier |-> " energy drained from "]
      [] regex = "capTransferedIn"   -> [marker |-> "", sign |-> "", qualifier |-> " remote capacitor transmitted by "]
      [] regex = "capNeutralizedIn"  -> [marker |-> "ffe57f7f", sign |-> "", qualifier |-> " energy neutralized "]
      [] OTHER                       -> [marker |-> "", sign |-> "-", qualifier |-> " energy drained to "]

\* The token ends with the marker followed by ">".
EndsWithMarker(t, marker) ==
    CASE marker = ""         -> IsTag(t)
      [] marker = "ff7fffff" -> t = "<color=0xff7fffff>"
      [] marker = "ffe57f7f" -> t = "<color=0xffe57f7f>"
      [] OTHER               -> FALSE

\* "." does not match a line end, so no match spans two lines: the lines of
\* a text, the last one possibly without its line end.
RECURSIVE SplitLines(_)
SplitLines(text) ==
    IF text = <<>> THEN <<>>
    ELSE IF \E n \in 1..Len(text) : text[n] = "\n"
         THEN LET n == CHOOSE n \in 1..Len(text) :
                          text[n] = "\n" /\ \A m \in 1..(n - 1) : text[m] # "\n"
              IN <<SubSeq(text, 1, n - 1)>> \o SplitLines(SubSeq(text, n + 1, Len(text)))
         ELSE <<text>>

\* ([0-9]+) is greedy: the last token of the run of digits that starts at d.
DigitRunEnd(line, d) ==
    CHOOSE e \in d..Len(line) :
        /\ \A x \in d..e : IsDigit(line[x])
        /\ e = Len(line) \/ ~IsDigit(line[e + 1])

\* Where the digits start when MARKER> is token j.
DigitStart(pattern, j) == j + 2 + (IF pattern.sign = "" THEN 0 ELSE 1)

\* The pattern matches in the line with "(combat) <" at tokens i, i+1 and
\* MARKER> at token j.
MatchFrom(pattern, line, i, j) ==
    LET d == DigitStart(pattern, j)
    IN /\ line[i] = "(combat) "
       /\ i + 1 <= Len(line)
       /\ IsTag(line[i + 1])
       /\ j >= i + 1
       /\ d <= Len(line)
       /\ EndsWithMarker(line[j], pattern.marker)
       /\ line[j + 1] = "<b>"
       /\ pattern.sign = "" \/ line[j + 2] = pattern.sign
       /\ IsDigit(line[d])
       /\ \E k \in (DigitRunEnd(line, d) + 1)..(Len(line) - 2) :
             /\ IsTag(line[k])
             /\ line[k + 1] = pattern.qualifier
             /\ IsTag(line[k + 2])

\* regex.findall on one line: the match starts at the first "(combat) <"
\* from which the pattern matches, .*? stops at the first MARKER><b> that
\* lets the rest match, and .* runs to the last QUALIFIER of the line, so a
\* line has at most one match.  The captured digits of each match.
FindAllInLine(pattern, line) ==
    LET starts == {i \in 1..Len(line) :
                      /\ line[i] = "(combat) "
                      /\ \E j \in (i + 1)..Len(line) : MatchFrom(pattern, line, i, j)}
    IN IF starts = {} THEN <<>>
       ELSE LET i == CHOOSE i \in starts : \A x \in starts : i <= x
                j == CHOOSE j \in (i + 1)..Len(line) :
                        /\ MatchFrom(pattern, line, i, j)
                        /\ \A x \in (i + 1)..(j - 1) : ~MatchFrom(pattern, line, i, x)
                d == DigitStart(pattern, j)
            IN <<SubSeq(line, d, DigitRunEnd(line, d))>>

RECURSIVE FindAllInLines(_, _)
FindAllInLines(pattern, lines) ==
    IF lines = <<>> THEN <<>>
    ELSE FindAllInLine(pattern, Head(lines)) \o FindAllInLines(pattern, Tail(lines))

\* regex.findall(logData).
FindAll(regex, logData) == FindAllInLines(Pattern(regex), SplitLines(logData))

\* int(match).
RECURSIVE IntOf(_)
IntOf(digits) ==
    IF digits = <<>> THEN 0
    ELSE 10 * IntOf(SubSeq(digits, 1, Len(digits) - 1)) + DigitValue(digits[Len(digits)])

RECURSIVE SumInts(_)
SumInts(group) == IF group = <<>> THEN 0 ELSE IntOf(Head(group)) + SumInts(Tail(group))

\* LogReader.extractValues(regex, logData) on text.
ExtractValuesText(regex, logData) == SumInts(FindAll(regex, logData))

\* A variant of ReadLogText that leaves the drained energy out of
\* capDamageDone.
ReadLogTextNosOnce(logData) ==
    <<ExtractValuesText("damageOut", logData),
      ExtractValuesText("damageIn", logData),
      ExtractValuesText("armorRepairedOut", logData)
          + ExtractValuesText("hullRepairedOut", logData)
          + ExtractValuesText("shieldBoostedOut", logData),
      ExtractValuesText("armorRepairedIn", logData)
          + ExtractValuesText("hullRepairedIn", logData)
          + ExtractValuesText("shieldBoostedIn", logData),
      ExtractValuesText("capTransferedOut", logData),
      ExtractValuesText("capTransferedIn", logData)
          + ExtractValuesText("nosRecieved", logData),
      ExtractValuesText("capNeutralizedOut", logData),
      ExtractValuesText("capNeutralizedIn", logData)
          + ExtractValuesText("nosTaken", logData)>>

\* BaseLogReader.readLog(logData) on text.
ReadLogText(logData) ==
    <<ExtractValuesText("damageOut", logData),
      ExtractValuesText("damageIn", logData),
      ExtractValuesText("armorRepairedOut", logData)
          + ExtractValuesText("hullRepairedOut", logData)
          + ExtractValuesText("shieldBoostedOut", logData),
      ExtractValuesText("armorRepairedIn", logData)
          + ExtractValuesText("hullRepairedIn", logData)
          + ExtractValuesText("shieldBoostedIn", logData),
      ExtractValuesText("capTransferedOut", logData),
      ExtractValuesText("capTransferedIn", logData)
          + ExtractValuesText("nosRecieved", logData),
      ExtractValuesText("capNeutralizedOut", logData)
          + ExtractValuesText("nosRecieved", logData),
      ExtractValuesText("capNeutralizedIn", logData)
          + ExtractValuesText("nosTaken", logData)>>

\* No extraction has been made.
NoTotals == [read |-> FALSE, before |-> ZeroTuple, after |-> ZeroTuple,
             whole |-> ZeroTuple]

---------------------------------------------------------------------------
\* LogReader.

\* LogReader.__init__ on the file as it is written so far: the outcome, and
\* for a constructed reader the cursor the final log.read() leaves.
LogReaderInit(content) ==
    LET characterLine == ReadLine(content, 3)
        logLine == ReadLine(content, 6)
    IN IF ReSearchListener(characterLine) = None
       THEN [outcome |-> "BadLogException", pos |-> 0]
       ELSE IF logLine = SEPARATOR
            THEN IF ReSearchListener(ReadLine(content, 8)) = None
                 THEN [outcome |-> "AttributeError", pos |-> 0]
                 ELSE [outcome |-> "BadLogException", pos |-> 0]
            ELSE [outcome |-> "ok", pos |-> Len(content)]

\* A LogReader object: the file its handle is open on and the cursor of the
\* handle.  start, consumed and caught record its history up to its first
\* catchup: the cursor when construction ended and the line numbers its
\* readLog calls consumed; caught tells that catchup was called.
NewLogReader(f, pos) ==
    [file |-> f, pos |-> pos, start |-> pos, consumed |-> <<>>, caught |-> FALSE]

\* The line numbers of the text self.log.read() returns, and the text.
DeltaLines(reader, content) ==
    [i \in 1..(Len(content) - reader.pos) |-> reader.pos + i]

DeltaText(reader, content) == SubSeq(content, reader.pos + 1, Len(content))

\* A variant of LogReaderReadLog that reads the file twice and hands only
\* the second, empty, read to the extractor.
LogReaderReadLogReadsTwice(reader, content) ==
    [reader |-> [reader EXCEPT !.pos = Len(content)],
     result |-> BaseReadLog(<<>>)]

\* LogReader.readLog: the reader after self.log.read(), and the totals of
\* the text read.
LogReaderReadLog(reader, content) ==
    [reader |-> [reader EXCEPT
                    !.pos = Len(content),
                    !.consumed = IF reader.caught THEN <<>>
                                 ELSE reader.consumed \o DeltaLines(reader, content)],
     result |-> BaseReadLog(DeltaText(reader, content))]

\* A variant of ReaderAfterCatchup that leaves the cursor where it is.
ReaderAfterCatchupStays(reader, content) ==
    [reader EXCEPT !.start = 0, !.consumed = <<>>, !.caught = TRUE]

\* LogReader.catchup: the reader after self.log.read(), the text dropped.
ReaderAfterCatchup(reader, content) ==
    [reader EXCEPT !.pos = Len(content), !.start = 0, !.consumed = <<>>,
                   !.caught = TRUE]

---------------------------------------------------------------------------
\* PlaybackLogReader.

\* PlaybackLogReader.__init__ on a file: how construction ends.  Line 205
\* calls .group(0) on the list that findall returns, so a file that passes
\* the header checks ends in AttributeError as well.
PlaybackLogReaderInit(content) ==
    LET characterLine == ReadLine(content, 3)
    IN IF ReSearchListener(characterLine) = None
       THEN "BadLogException"
       ELSE IF ~ReSearchSession(ReadLine(content, 4))
            THEN "AttributeError"
            ELSE IF ReadLine(content, 6) = SEPARATOR
                    /\ ReSearchListener(ReadLine(content, 8)) = None
                 THEN "AttributeError"
                 ELSE "AttributeError"

---------------------------------------------------------------------------
\* The state.

VARIABLES
    logFiles,           \* the files of the log directory: the lines written so far
    fileKind,           \* what the client is writing into each file
    observer,           \* the watchdog observer: "unscheduled", "running", or
                        \* "stopped" (it dispatches no more events)
    eventQueue,         \* file-created events not yet dispatched to on_created
    menuEntries,        \* CharacterDetector.menuEntries
    logReaders,         \* CharacterDetector.logReaders
    selectedIndex,      \* CharacterDetector.selectedIndex
    playbackLogReader,  \* CharacterDetector.playbackLogReader
    menuButtons,        \* the radiobuttons of characterMenu.menu: their values
    wpc,                \* where the watchdog thread is in addLog
    logPath,            \* addLog's logPath
    character,          \* addLog's character
    newLogReader,       \* addLog's newLogReader
    addLogResult,       \* how addLog ended for each file it was called on
    lastCall,           \* the readLog, catchupLog or playbackLog call that has just
                        \* returned, and what it returned (NoCall after another step)
    mark,               \* a menu selection with no readLog after it yet: the file
                        \* of the selected reader, the length of that file then,
                        \* the lines of it that reader had not read
    fileName,           \* the names of the files CharacterDetector.__init__ finds
                        \* in the directory, by file
    fileList,           \* __init__'s fileList: the files its loop has yet to visit
    scanpc,             \* where __init__ is: "scan", "done", or "raised" (an
                        \* exception other than FileNotFoundError left it)
    clientEvents,       \* the events a client logged, of which the extractor is
                        \* handed the text
    splitAt,            \* where a read of that text reached end-of-file
    totals              \* what BaseLogReader.readLog returned for the text before
                        \* the split, after it, and for the whole

vars == <<logFiles, fileKind, observer, eventQueue, menuEntries, logReaders,
          selectedIndex, playbackLogReader, menuButtons, wpc, logPath,
          character, newLogReader, addLogResult, lastCall, mark,
          fileName, fileList, scanpc, clientEvents, splitAt, totals>>

fileVars == <<logFiles, fileKind>>
registryVars == <<menuEntries, logReaders, selectedIndex, playbackLogReader, menuButtons>>
watcherVars == <<wpc, logPath, character, newLogReader>>
scanVars == <<fileName, fileList, scanpc>>
extractorVars == <<clientEvents, splitAt, totals>>

NoReader == [file |-> 0, pos |-> 0, start |-> 0, consumed |-> <<>>, caught |-> FALSE]

\* A call of the main thread: the operation, the file it touched, the cursor
\* of that file's reader before and after, the exception the caller saw, how
\* the constructor it ran ended, the tuple it returned, and, for the first
\* readLog after a menu selection, the selection's record.  For a catchupLog
\* also the calls it made, in order (with the variable Tk set before it
\* when the menu ran it), and the selected index before it.
Call(op, file, lo, hi, raised, outcome, result, switch) ==
    [op |-> op, file |-> file, lo |-> lo, hi |-> hi, raised |-> raised,
     outcome |-> outcome, result |-> result, switch |-> switch,
     calls |-> <<>>, was |-> 0]

\* No menu selection since the last readLog.
NoMark == [active |-> FALSE, file |-> 0, len |-> 0, dropped |-> 0]

NoCall == Call("none", 0, 0, 0, None, None, ZeroTuple, NoMark)

FileIds == 1..Len(logFiles)

\* A CharacterDetector with nothing registered, no file in the directory
\* and the watchdog thread outside addLog.
NothingRegistered ==
    /\ logFiles = <<>>
    /\ fileKind = <<>>
    /\ eventQueue = <<>>
    /\ menuEntries = <<>>
    /\ logReaders = <<>>
    /\ selectedIndex = 0
    /\ playbackLogReader = None
    /\ menuButtons = {}
    /\ wpc = "idle"
    /\ logPath = 0
    /\ character = None
    /\ newLogReader = NoReader
    /\ addLogResult = <<>>
    /\ lastCall = NoCall
    /\ mark = NoMark

\* CharacterDetector.__init__ with an empty log directory (the observer is
\* started) or with no log directory (FileNotFoundError: it never is).
Init ==
    /\ NothingRegistered
    /\ observer \in {"running", "unscheduled"}
    /\ fileName = <<>>
    /\ fileList = <<>>
    /\ scanpc = "done"
    /\ clientEvents = <<>>
    /\ splitAt = 0
    /\ totals = NoTotals

---------------------------------------------------------------------------
\* The game client.

\* A client starts a session: a new, empty file appears in the directory,
\* and a running observer queues its file-created event.
CreateFile(kind) ==
    /\ Len(logFiles) < MaxFiles
    /\ logFiles' = Append(logFiles, <<>>)
    /\ fileKind' = Append(fileKind, kind)
    /\ addLogResult' = Append(addLogResult, "none")
    /\ eventQueue' = IF observer = "running"
                     THEN Append(eventQueue, Len(logFiles) + 1)
                     ELSE eventQueue
    /\ lastCall' = NoCall
    /\ UNCHANGED <<scanVars, extractorVars,
                   observer, registryVars, watcherVars, mark>>

\* The client writes the next part of the header of file f.
WriteHeader(f) ==
    /\ f \in FileIds
    /\ Len(logFiles[f]) < Len(Header(fileKind[f]))
    /\ \E p \in WritePoints(fileKind[f]) :
          /\ p > Len(logFiles[f])
          /\ logFiles' = [logFiles EXCEPT ![f] = SubSeq(Header(fileKind[f]), 1, p)]
    /\ lastCall' = NoCall
    /\ UNCHANGED <<scanVars, extractorVars,
                   fileKind, observer, eventQueue, registryVars, watcherVars,
                   addLogResult, mark>>

\* The number of event lines in file f.
EventCount(f) == Len(logFiles[f]) - Len(Header(fileKind[f]))

\* The client appends an event line to file f.
WriteEvent(f) ==
    /\ f \in FileIds
    /\ HasEvents(fileKind[f])
    /\ Len(logFiles[f]) >= Len(Header(fileKind[f]))
    /\ EventCount(f) < MaxEvents
    /\ logFiles' = [logFiles EXCEPT ![f] = Append(@, EventLine(EventCount(f) + 1))]
    /\ lastCall' = NoCall
    /\ UNCHANGED <<scanVars, extractorVars,
                   fileKind, observer, eventQueue, registryVars, watcherVars,
                   addLogResult, mark>>

---------------------------------------------------------------------------
\* The watchdog thread: on_created and addLog, statement by statement.

\* addLog returns (or lets an exception escape) with the given result.
AddLogReturn(f, result) ==
    /\ addLogResult' = [addLogResult EXCEPT ![f] = result]
    /\ wpc' = "idle"
    /\ logPath' = 0
    /\ character' = None
    /\ newLogReader' = NoReader

\* A variant of MatchIndex that finds no entry.
MatchIndexNever(c) == 0

\* A variant of MatchIndex that takes the first entry for a match.
MatchIndexFirst(c) == IF Len(menuEntries) > 0 THEN 1 ELSE 0

\* The first index of menuEntries that holds c, 0 when none does.
MatchIndex(c) ==
    IF \E i \in 1..Len(menuEntries) : menuEntries[i] = c
    THEN CHOOSE i \in 1..Len(menuEntries) :
            menuEntries[i] = c /\ \A j \in 1..(i - 1) : menuEntries[j] # c
    ELSE 0

\* on_created, and addLog up to the search of the Listener line.
OnCreated ==
    /\ observer = "running"
    /\ wpc = "idle"
    /\ eventQueue # <<>>
    /\ eventQueue' = Tail(eventQueue)
    /\ LET f == Head(eventQueue)
           found == ReSearchListener(ReadLine(logFiles[f], 3))
       IN IF found = None
          THEN AddLogReturn(f, "not a character log")
          ELSE /\ wpc' = "construct"
               /\ logPath' = f
               /\ character' = found
               /\ UNCHANGED <<newLogReader, addLogResult>>
    /\ lastCall' = NoCall
    /\ UNCHANGED <<scanVars, extractorVars, fileVars, observer, registryVars, mark>>

\* addLog: the loop over menuEntries and LogReader(logPath).
AddLogConstruct ==
    /\ wpc = "construct"
    /\ LET made == LogReaderInit(logFiles[logPath])
       IN CASE made.outcome = "ok" ->
                 /\ newLogReader' = NewLogReader(logPath, made.pos)
                 /\ wpc' = IF MatchIndex(character) # 0 THEN "replace" ELSE "append"
                 /\ UNCHANGED <<logPath, character, addLogResult, observer>>
            [] made.outcome = "BadLogException" ->
                 /\ AddLogReturn(logPath, "BadLogException")
                 /\ UNCHANGED observer
            [] OTHER ->
                 \* The exception leaves on_created; the dispatching thread
                 \* survives it or ends, as the watchdog version has it.
                 /\ AddLogReturn(logPath, made.outcome)
                 /\ observer' \in {observer, "stopped"}
    /\ lastCall' = NoCall
    /\ UNCHANGED <<scanVars, extractorVars,
                   fileVars, eventQueue, registryVars, mark>>

\* A variant of AddLogReplace that appends the new reader instead of storing
\* it at the matching index.
AddLogReplaceAppends ==
    /\ wpc = "replace"
    /\ logReaders' = Append(logReaders, newLogReader)
    /\ AddLogReturn(logPath, "replaced")
    /\ lastCall' = NoCall
    /\ UNCHANGED <<scanVars, extractorVars,
                   fileVars, observer, eventQueue, menuEntries, selectedIndex,
                   playbackLogReader, menuButtons, mark>>

\* addLog: self.logReaders[i] = newLogReader; return.
AddLogReplace ==
    /\ wpc = "replace"
    /\ logReaders' = [logReaders EXCEPT ![MatchIndex(character)] = newLogReader]
    /\ AddLogReturn(logPath, "replaced")
    /\ lastCall' = NoCall
    /\ UNCHANGED <<scanVars, extractorVars,
                   fileVars, observer, eventQueue, menuEntries, selectedIndex,
                   playbackLogReader, menuButtons, mark>>

\* addLog: self.logReaders.append(newLogReader).
AddLogAppendReader ==
    /\ wpc = "append"
    /\ logReaders' = Append(logReaders, newLogReader)
    /\ wpc' = "button"
    /\ lastCall' = NoCall
    /\ UNCHANGED <<scanVars, extractorVars,
                   fileVars, observer, eventQueue, menuEntries, selectedIndex,
                   playbackLogReader, menuButtons, logPath, character,
                   newLogReader, addLogResult, mark>>

\* addLog: add_radiobutton(value=len(self.menuEntries)).
AddLogAddButton ==
    /\ wpc = "button"
    /\ menuButtons' = menuButtons \cup {Len(menuEntries)}
    /\ wpc' = "entry"
    /\ lastCall' = NoCall
    /\ UNCHANGED <<scanVars, extractorVars,
                   fileVars, observer, eventQueue, menuEntries, logReaders,
                   selectedIndex, playbackLogReader, logPath, character,
                   newLogReader, addLogResult, mark>>

\* addLog: self.menuEntries.append(character).
AddLogAppendEntry ==
    /\ wpc = "entry"
    /\ menuEntries' = Append(menuEntries, character)
    /\ AddLogReturn(logPath, "registered")
    /\ lastCall' = NoCall
    /\ UNCHANGED <<scanVars, extractorVars,
                   fileVars, observer, eventQueue, logReaders, selectedIndex,
                   playbackLogReader, menuButtons, mark>>

---------------------------------------------------------------------------
\* The main thread: the polling driver, the character menu, playback, stop.

\* A variant of ReadLogBranch without the empty-registry case.
ReadLogBranchNoZero ==
    IF playbackLogReader # None THEN "playback" ELSE "live"

\* CharacterDetector.readLog: the branch its conditions take.
ReadLogBranch ==
    IF playbackLogReader # None THEN "playback"
    ELSE IF Len(menuEntries) > 0 THEN "live"
    ELSE "zero"

\* A variant of ReadLog that reads every reader of the registry and returns
\* the totals of the selected one.
ReadLogAdvancesAll ==
    /\ IF ReadLogBranch = "playback"
       THEN /\ lastCall' = Call("readLog", 0, 0, 0, "AttributeError", None,
                                ZeroTuple, mark)
            /\ UNCHANGED logReaders
       ELSE IF ReadLogBranch = "live"
       THEN IF selectedIndex + 1 \in 1..Len(logReaders)
            THEN LET reader == logReaders[selectedIndex + 1]
                     content == logFiles[reader.file]
                     read == LogReaderReadLog(reader, content)
                 IN /\ logReaders' =
                          [i \in 1..Len(logReaders) |->
                              LogReaderReadLog(logReaders[i],
                                               logFiles[logReaders[i].file]).reader]
                    /\ lastCall' = Call("readLog", reader.file, reader.pos,
                                        read.reader.pos, None, None, read.result,
                                        mark)
            ELSE /\ lastCall' = Call("readLog", 0, 0, 0, "IndexError", None,
                                     ZeroTuple, mark)
                 /\ UNCHANGED logReaders
       ELSE /\ lastCall' = Call("readLog", 0, 0, 0, None, None, ZeroTuple,
                                mark)
            /\ UNCHANGED logReaders
    /\ mark' = NoMark
    /\ UNCHANGED <<scanVars, extractorVars, fileVars, observer, eventQueue,
                   menuEntries, selectedIndex, playbackLogReader, menuButtons,
                   watcherVars, addLogResult>>

\* CharacterDetector.readLog, called by the polling driver.
ReadLog ==
    /\ IF ReadLogBranch = "playback"
       THEN \* PlaybackLogReader.readLog reads self.nextEntry, which no code sets.
            /\ lastCall' = Call("readLog", 0, 0, 0, "AttributeError", None,
                                ZeroTuple, mark)
            /\ UNCHANGED logReaders
       ELSE IF ReadLogBranch = "live"
       THEN IF selectedIndex + 1 \in 1..Len(logReaders)
            THEN LET reader == logReaders[selectedIndex + 1]
                     content == logFiles[reader.file]
                     read == LogReaderReadLog(reader, content)
                 IN /\ logReaders' = [logReaders EXCEPT ![selectedIndex + 1] = read.reader]
                    /\ lastCall' = Call("readLog", reader.file, reader.pos,
                                        read.reader.pos, None, None, read.result,
                                        mark)
            ELSE /\ lastCall' = Call("readLog", 0, 0, 0, "IndexError", None,
                                     ZeroTuple, mark)
                 /\ UNCHANGED logReaders
       ELSE /\ lastCall' = Call("readLog", 0, 0, 0, None, None, ZeroTuple,
                                mark)
            /\ UNCHANGED logReaders
    /\ mark' = NoMark
    /\ UNCHANGED <<scanVars, extractorVars,
                   fileVars, observer, eventQueue, menuEntries, selectedIndex,
                   playbackLogReader, menuButtons, watcherVars, addLogResult>>

\* A variant of CatchupLog that calls no reader's catchup.
CatchupLogSkipsReader(v) == logReaders

\* CharacterDetector.catchupLog with the selection at index v: the readers
\* after it (an IndexError is swallowed).
CatchupLog(v) ==
    IF v + 1 \in 1..Len(logReaders)
    THEN [logReaders EXCEPT ![v + 1] =
             ReaderAfterCatchup(logReaders[v + 1], logFiles[logReaders[v + 1].file])]
    ELSE logReaders

\* self.logReaders[v]: the exception the lookup raises.
ReaderLookup(v) ==
    IF v + 1 \in 1..Len(logReaders) THEN None ELSE "IndexError"

\* A variant of CatchupLogRaised without the except clause.
CatchupLogRaisedUncaught(v) == ReaderLookup(v)

\* The exception that leaves catchupLog with the selection at index v:
\* "except IndexError: pass" lets none out.
CatchupLogRaised(v) ==
    IF ReaderLookup(v) = "IndexError" THEN None ELSE ReaderLookup(v)

\* A variant of CatchupLogCalls that notifies the animator inside the try
\* block, after the reader's catchup.
CatchupLogCallsInsideTry(v) ==
    IF ReaderLookup(v) = None
    THEN <<"LogReader.catchup", "animator.catchup">>
    ELSE <<>>

\* The calls catchupLog makes with the selection at index v, in order.
CatchupLogCalls(v) ==
    <<"animator.catchup">>
    \o (IF ReaderLookup(v) = None THEN <<"LogReader.catchup">> ELSE <<>>)

\* The user picks the radiobutton of value v: Tk sets selectedIndex to v and
\* runs the button's command, catchupLog.
SelectMenu(v) ==
    /\ v \in menuButtons
    /\ selectedIndex' = v
    /\ logReaders' = CatchupLog(v)
    /\ LET has == v + 1 \in 1..Len(logReaders)
           before == IF has THEN logReaders[v + 1] ELSE NoReader
           after == IF has THEN logReaders'[v + 1] ELSE NoReader
       IN /\ lastCall' = [Call("catchupLog", before.file, before.pos, after.pos,
                               CatchupLogRaised(v), None, ZeroTuple, NoMark)
                          EXCEPT !.calls = <<"selectedIndex.set">> \o CatchupLogCalls(v),
                                 !.was = selectedIndex]
          /\ mark' = [active |-> TRUE, file |-> before.file,
                      len |-> IF has THEN Len(logFiles[before.file]) ELSE 0,
                      dropped |-> IF has THEN Len(logFiles[before.file]) - before.pos
                                  ELSE 0]
    /\ UNCHANGED <<scanVars, extractorVars,
                   fileVars, observer, eventQueue, menuEntries,
                   playbackLogReader, menuButtons, watcherVars, addLogResult>>

\* catchupLog called with the selection as it is.
CallCatchupLog ==
    /\ logReaders' = CatchupLog(selectedIndex)
    /\ LET has == ReaderLookup(selectedIndex) = None
           before == IF has THEN logReaders[selectedIndex + 1] ELSE NoReader
           after == IF has THEN logReaders'[selectedIndex + 1] ELSE NoReader
       IN /\ lastCall' = [Call("catchupLog", before.file, before.pos, after.pos,
                               CatchupLogRaised(selectedIndex), None, ZeroTuple,
                               NoMark)
                          EXCEPT !.calls = CatchupLogCalls(selectedIndex),
                                 !.was = selectedIndex]
          /\ mark' = IF has
                     THEN [active |-> TRUE, file |-> before.file,
                           len |-> Len(logFiles[before.file]),
                           dropped |-> Len(logFiles[before.file]) - before.pos]
                     ELSE mark
    /\ UNCHANGED <<scanVars, extractorVars,
                   fileVars, observer, eventQueue, menuEntries,
                   selectedIndex, playbackLogReader, menuButtons, watcherVars,
                   addLogResult>>

\* CharacterDetector.playbackLog(logPath) on file f.
PlaybackLog(f) ==
    /\ f \in FileIds
    /\ LET outcome == PlaybackLogReaderInit(logFiles[f])
       IN IF outcome = "BadLogException"
          THEN \* caught; line 112 then clears the reader
               /\ playbackLogReader' = None
               /\ lastCall' = Call("playbackLog", f, 0, 0, None, outcome,
                                   ZeroTuple, NoMark)
          ELSE \* the exception leaves playbackLog before line 109 assigns
               /\ playbackLogReader' = playbackLogReader
               /\ lastCall' = Call("playbackLog", f, 0, 0, outcome, outcome,
                                   ZeroTuple, NoMark)
    /\ UNCHANGED <<scanVars, extractorVars,
                   fileVars, observer, eventQueue, menuEntries, logReaders,
                   selectedIndex, menuButtons, watcherVars, addLogResult, mark>>

\* CharacterDetector.stop.
Stop ==
    /\ observer # "stopped"
    /\ observer' = "stopped"
    /\ lastCall' = NoCall
    /\ UNCHANGED <<scanVars, extractorVars,
                   fileVars, eventQueue, registryVars, watcherVars,
                   addLogResult, mark>>

---------------------------------------------------------------------------
Next ==
    \/ \E kind \in Kinds : CreateFile(kind)
    \/ \E f \in 1..MaxFiles : WriteHeader(f)
    \/ \E f \in 1..MaxFiles : WriteEvent(f)
    \/ OnCreated
    \/ AddLogConstruct
    \/ AddLogReplace
    \/ AddLogAppendReader
    \/ AddLogAddButton
    \/ AddLogAppendEntry
    \/ ReadLog
    \/ \E v \in 0..(MaxFiles - 1) : SelectMenu(v)
    \/ CallCatchupLog
    \/ \E f \in 1..MaxFiles : PlaybackLog(f)
    \/ Stop

Spec == Init /\ [][Next]_vars

---------------------------------------------------------------------------
\* CharacterDetector.__init__ on a directory that holds files: the scan.
\*
\* A file name is a sequence of parts; the files are numbered in the order
\* of their modification times, the order in which the scan visits them.

MaxScanFiles == 3

\* utcnow() when __init__ runs, in hours since 2017.05.01 00:00:00.
UtcNow == 36

Stamps == {"20170501_100000", "20170501_130000", "20170502_110000"}

\* The names of the files of the directory: three that the client's naming
\* makes (one of them of a session that started more than a day ago), one
\* that holds no timestamp, and one that holds a timestamp after a "t".
FileNames ==
    {<<"20170501_100000", ".txt">>,
     <<"20170501_130000", ".txt">>,
     <<"20170502_110000", ".txt">>,
     <<"notes", ".txt">>,
     <<"t", "20170501_130000", ".txt">>}

\* The part consists of characters of ".txt" only.
Strippable(part) == part \in {".txt", "t", "x", "."}

\* filename.strip(".txt"): the name without the leading and the trailing
\* characters that are ".", "t" or "x".
RECURSIVE Strip(_)
Strip(name) ==
    IF name = <<>> THEN <<>>
    ELSE IF Strippable(Head(name)) THEN Strip(Tail(name))
    ELSE IF Strippable(name[Len(name)]) THEN Strip(SubSeq(name, 1, Len(name) - 1))
    ELSE name

\* datetime.strptime(timeString, "%Y%m%d_%H%M%S"): the time in hours since
\* 2017.05.01 00:00:00, or ValueError.
Strptime(timeString) ==
    IF Len(timeString) = 1 /\ timeString[1] \in Stamps
    THEN [raised |-> None,
          time |-> CASE timeString[1] = "20170501_100000" -> 10
                     [] timeString[1] = "20170501_130000" -> 13
                     [] OTHER                             -> 35]
    ELSE [raised |-> "ValueError", time |-> 0]

\* What a file of each kind holds when the scan runs: its header as far as
\* the client has written it.
ScanContents(kind) == {SubSeq(Header(kind), 1, p) : p \in WritePoints(kind)}

ScanInit ==
    /\ \E n \in 0..MaxScanFiles :
          /\ fileKind \in [1..n -> Kinds]
          /\ fileName \in [1..n -> FileNames]
          /\ \A f, g \in 1..n : fileName[f] = fileName[g] => f = g
          /\ logFiles \in [1..n -> UNION {ScanContents(kind) : kind \in Kinds}]
          /\ \A f \in 1..n : logFiles[f] \in ScanContents(fileKind[f])
          /\ fileList = [f \in 1..n |-> f]
          /\ addLogResult = [f \in 1..n |-> "none"]
    /\ observer = "unscheduled"
    /\ eventQueue = <<>>
    /\ menuEntries = <<>>
    /\ logReaders = <<>>
    /\ selectedIndex = 0
    /\ playbackLogReader = None
    /\ menuButtons = {}
    /\ wpc = "idle"
    /\ logPath = 0
    /\ character = None
    /\ newLogReader = NoReader
    /\ lastCall = NoCall
    /\ mark = NoMark
    /\ scanpc = "scan"
    /\ clientEvents = <<>>
    /\ splitAt = 0
    /\ totals = NoTotals

\* The scan goes on to the next file.
ScanContinue ==
    /\ fileList' = Tail(fileList)
    /\ scanpc' = scanpc

\* The loop body on a file whose name does not parse: continue.
ScanSkipName ==
    /\ scanpc = "scan"
    /\ fileList # <<>>
    /\ Strptime(Strip(fileName[Head(fileList)])).raised = "ValueError"
    /\ ScanContinue
    /\ UNCHANGED <<fileVars, observer, eventQueue, registryVars, watcherVars,
                   addLogResult, lastCall, mark, fileName, extractorVars>>

\* The loop body on a file whose name holds a time before oneDayAgo.
ScanSkipOld ==
    /\ scanpc = "scan"
    /\ fileList # <<>>
    /\ Strptime(Strip(fileName[Head(fileList)])).raised = None
    /\ Strptime(Strip(fileName[Head(fileList)])).time < UtcNow - 24
    /\ ScanContinue
    /\ UNCHANGED <<fileVars, observer, eventQueue, registryVars, watcherVars,
                   addLogResult, lastCall, mark, fileName, extractorVars>>

\* The loop body on a file of the last 24 hours: addLog, from its first
\* statement to its return, with no other thread running yet.
ScanAddLog ==
    /\ scanpc = "scan"
    /\ fileList # <<>>
    /\ Strptime(Strip(fileName[Head(fileList)])).raised = None
    /\ Strptime(Strip(fileName[Head(fileList)])).time >= UtcNow - 24
    /\ LET f == Head(fileList)
           found == ReSearchListener(ReadLine(logFiles[f], 3))
           made == LogReaderInit(logFiles[f])
           i == MatchIndex(found)
       IN IF found = None
          THEN /\ addLogResult' = [addLogResult EXCEPT ![f] = "not a character log"]
               /\ ScanContinue
               /\ UNCHANGED <<menuEntries, logReaders, menuButtons>>
          ELSE CASE made.outcome = "ok" /\ i # 0 ->
                      /\ logReaders' = [logReaders EXCEPT ![i] = NewLogReader(f, made.pos)]
                      /\ addLogResult' = [addLogResult EXCEPT ![f] = "replaced"]
                      /\ ScanContinue
                      /\ UNCHANGED <<menuEntries, menuButtons>>
                 [] made.outcome = "ok" /\ i = 0 ->
                      /\ logReaders' = Append(logReaders, NewLogReader(f, made.pos))
                      /\ menuButtons' = menuButtons \cup {Len(menuEntries)}
                      /\ menuEntries' = Append(menuEntries, found)
                      /\ addLogResult' = [addLogResult EXCEPT ![f] = "registered"]
                      /\ ScanContinue
                 [] made.outcome = "BadLogException" ->
                      /\ addLogResult' = [addLogResult EXCEPT ![f] = "BadLogException"]
                      /\ ScanContinue
                      /\ UNCHANGED <<menuEntries, logReaders, menuButtons>>
                 [] OTHER ->
                      \* the exception leaves addLog and, not being a
                      \* FileNotFoundError, __init__
                      /\ addLogResult' = [addLogResult EXCEPT ![f] = made.outcome]
                      /\ scanpc' = "raised"
                      /\ UNCHANGED <<fileList, menuEntries, logReaders, menuButtons>>
    /\ UNCHANGED <<fileVars, observer, eventQueue, selectedIndex, playbackLogReader,
                   watcherVars, lastCall, mark, fileName, extractorVars>>

\* After the loop: selectedIndex.set(0), observer.schedule, observer.start.
ScanEnd ==
    /\ scanpc = "scan"
    /\ fileList = <<>>
    /\ selectedIndex' = 0
    /\ observer' = "running"
    /\ scanpc' = "done"
    /\ UNCHANGED <<fileVars, eventQueue, menuEntries, logReaders, playbackLogReader,
                   menuButtons, watcherVars, addLogResult, lastCall, mark,
                   fileName, fileList, extractorVars>>

ScanNext ==
    \/ ScanSkipName
    \/ ScanSkipOld
    \/ ScanAddLog
    \/ ScanEnd

ScanSpec == ScanInit /\ [][ScanNext]_vars

---------------------------------------------------------------------------
\* The extractor on its own: a client logs events, a read of the text
\* reaches end-of-file somewhere in it, and BaseLogReader.readLog is applied
\* to the text before that point, to the text after it, and to the whole.

MaxBlockEvents == 2

\* What a client logs: the fourteen kinds the patterns are written for, a
\* notification, and a combat line without a number.
EventKinds == Regexes \cup {"notify", "scramble"}

\* The magnitudes the client logs of each kind.
Magnitudes(kind) ==
    CASE kind = "damageOut"         -> {125}
      [] kind = "damageIn"          -> {40}
      [] kind = "armorRepairedOut"  -> {3}
      [] kind = "hullRepairedOut"   -> {4}
      [] kind = "shieldBoostedOut"  -> {6}
      [] kind = "armorRepairedIn"   -> {7}
      [] kind = "hullRepairedIn"    -> {8}
      [] kind = "shieldBoostedIn"   -> {9}
      [] kind = "capTransferedOut"  -> {11}
      [] kind = "capNeutralizedOut" -> {64}
      [] kind = "nosRecieved"       -> {10, 15}
      [] kind = "capTransferedIn"   -> {12}
      [] kind = "capNeutralizedIn"  -> {21}
      [] kind = "nosTaken"          -> {2}
      [] OTHER                      -> {0}

ClientEvents ==
    {e \in [kind : EventKinds, value : 0..125] : e.value \in Magnitudes(e.kind)}

\* The decimal digits of a magnitude.
RECURSIVE DigitsOf(_)
DigitsOf(v) ==
    LET digit == CASE v % 10 = 0 -> "0" [] v % 10 = 1 -> "1" [] v % 10 = 2 -> "2"
                   [] v % 10 = 3 -> "3" [] v % 10 = 4 -> "4" [] v % 10 = 5 -> "5"
                   [] v % 10 = 6 -> "6" [] v % 10 = 7 -> "7" [] v % 10 = 8 -> "8"
                   [] OTHER -> "9"
    IN IF v < 10 THEN <<digit>> ELSE DigitsOf(v \div 10) \o <<digit>>

\* The color tag the client opens an event line of the kind with.
ColorOf(kind) ==
    CASE kind = "damageOut" -> "<color=0xff00ffff>"
      [] kind = "damageIn"  -> "<color=0xffcc0000>"
      [] kind \in {"capNeutralizedOut", "nosRecieved"} -> "<color=0xff7fffff>"
      [] kind \in {"capNeutralizedIn", "nosTaken"}     -> "<color=0xffe57f7f>"
      [] OTHER -> "<color=0xffccff66>"

\* The words the client writes between the magnitude and the other party.
WordsOf(kind) ==
    CASE kind = "damageOut"         -> "to"
      [] kind = "damageIn"          -> "from"
      [] kind = "armorRepairedOut"  -> " remote armor repaired to "
      [] kind = "hullRepairedOut"   -> " remote hull repaired to "
      [] kind = "shieldBoostedOut"  -> " remote shield boosted to "
      [] kind = "armorRepairedIn"   -> " remote armor repaired by "
      [] kind = "hullRepairedIn"    -> " remote hull repaired by "
      [] kind = "shieldBoostedIn"   -> " remote shield boosted by "
      [] kind = "capTransferedOut"  -> " remote capacitor transmitted to "
      [] kind = "capTransferedIn"   -> " remote capacitor transmitted by "
      [] kind \in {"capNeutralizedOut", "capNeutralizedIn"} -> " energy neutralized "
      [] kind = "nosRecieved"       -> " energy drained from "
      [] OTHER                      -> " energy drained to "

\* The line the client writes for an event.
EventText(e) ==
    CASE e.kind = "notify" ->
            <<"[ 2017.05.01 12:00:01 ] ", "(notify) ", "Ship stopping", "\n">>
      [] e.kind = "scramble" ->
            <<"[ 2017.05.01 12:00:01 ] ", "(combat) ", "<color=0xffffffff>", "<b>",
              "Warp scramble attempt", "</b>", " ", "<color=0x77ffffff>",
              "<font size=10>", "from", "</font>", " ", "<b>",
              "<color=0xffffffff>", "Rat", "</b>", "\n">>
      [] OTHER ->
            <<"[ 2017.05.01 12:00:01 ] ", "(combat) ", ColorOf(e.kind), "<b>">>
            \o (CASE e.kind = "nosRecieved" -> <<"+">>
                  [] e.kind = "nosTaken"    -> <<"-">>
                  [] OTHER                  -> <<>>)
            \o DigitsOf(e.value)
            \o (IF e.kind \in {"damageOut", "damageIn"}
                THEN <<"</b>", " ">> ELSE <<" GJ", "</b>">>)
            \o <<"<color=0x77ffffff>", "<font size=10>", WordsOf(e.kind), "</font>",
                 " ", "<b>", "<color=0xffffffff>", "Rat", "</b>", "\n">>

\* The text of a sequence of events.
RECURSIVE LogText(_)
LogText(events) ==
    IF events = <<>> THEN <<>> ELSE EventText(Head(events)) \o LogText(Tail(events))

EventBlocks ==
    UNION {[1..n -> ClientEvents] : n \in 0..MaxBlockEvents}

ExtractInit ==
    /\ NothingRegistered
    /\ observer = "unscheduled"
    /\ fileName = <<>>
    /\ fileList = <<>>
    /\ scanpc = "done"
    /\ clientEvents \in EventBlocks
    /\ splitAt \in 0..Len(LogText(clientEvents))
    /\ totals = NoTotals

\* BaseLogReader.readLog on the text up to the split, on the rest, and on
\* all of it.
Extract ==
    /\ ~totals.read
    /\ LET logData == LogText(clientEvents)
       IN totals' = [read |-> TRUE,
                     before |-> ReadLogText(SubSeq(logData, 1, splitAt)),
                     after |-> ReadLogText(SubSeq(logData, splitAt + 1, Len(logData))),
                     whole |-> ReadLogText(logData)]
    /\ UNCHANGED <<fileVars, observer, eventQueue, registryVars, watcherVars,
                   addLogResult, lastCall, mark, scanVars, clientEvents, splitAt>>

ExtractNext == Extract

ExtractSpec == ExtractInit /\ [][ExtractNext]_vars

---------------------------------------------------------------------------
\* What the claims speak of.

\* The Listener identity file f declares so far.
Identity(f) == ReSearchListener(ReadLine(logFiles[f], 3))

\* addLog registered file f: as a new entry, or in place of an older reader.
Accepted(f) == addLogResult[f] \in {"registered", "replaced"}

\* The newest accepted file of identity c (events are dispatched in the
\* order the files were created), 0 when there is none.
NewestFile(c) ==
    LET fs == {f \in FileIds : Accepted(f) /\ Identity(f) = c}
    IN IF fs = {} THEN 0 ELSE CHOOSE f \in fs : \A g \in fs : g <= f

\* The reader that serves a live readLog.
SelectedReader == logReaders[selectedIndex + 1]

---------------------------------------------------------------------------
\* C1: addLog on a character log whose identity is already registered
\* replaces that entry's reader: a file is registered as a replacement only
\* when an earlier file added its identity, replacements add no entry (the
\* registry has one entry per file that was appended, and one reader per
\* entry but for the reader addLog has appended just before its entry),
\* entry i's reader is over the newest accepted file of identity
\* menuEntries[i], and a live readLog is served, without an exception, by
\* the reader stored at the selected index: the newest accepted file of the
\* selected entry's identity.
C1_ReplaceKeepsSizeAndServesNewReader ==
    /\ \A f \in FileIds :
          addLogResult[f] = "replaced" =>
             \E g \in 1..(f - 1) :
                addLogResult[g] = "registered" /\ Identity(g) = Identity(f)
    /\ Len(menuEntries) = Cardinality({f \in FileIds : addLogResult[f] = "registered"})
    /\ Len(logReaders) = Len(menuEntries) + (IF wpc \in {"button", "entry"} THEN 1 ELSE 0)
    /\ \A i \in 1..Len(menuEntries) :
          logReaders[i].file = NewestFile(menuEntries[i])
    /\ (lastCall.op = "readLog" /\ Len(menuEntries) > 0) =>
          /\ lastCall.raised = None
          /\ lastCall.file = SelectedReader.file
          /\ selectedIndex + 1 <= Len(menuEntries) =>
                lastCall.file = NewestFile(menuEntries[selectedIndex + 1])

\* C1 witness: a file replaced a registered identity's reader and a readLog
\* has just returned text read from that file.
C1_Witness ==
    /\ lastCall.op = "readLog"
    /\ lastCall.file \in FileIds
    /\ addLogResult[lastCall.file] = "replaced"
    /\ lastCall.hi > lastCall.lo
    /\ lastCall.result # ZeroTuple

\* C2 (as claimed): whenever addLog is about to construct a LogReader on a
\* file whose sixth line is the separator, construction ends in
\* BadLogException.
C2_CollisionFailsWithBadLogException ==
    (wpc = "construct" /\ ReadLine(logFiles[logPath], 6) = SEPARATOR) =>
        LogReaderInit(logFiles[logPath]).outcome = "BadLogException"

\* C3: a readLog that returns while no character is registered returns the
\* all-zero tuple and raises nothing.
C3_EmptyRegistryReadsZero ==
    (lastCall.op = "readLog" /\ menuEntries = <<>>) =>
        /\ lastCall.raised = None
        /\ lastCall.result = ZeroTuple

\* C3 witness: readLog has just returned with an empty registry after addLog
\* turned down a non-character file and a collided file.
C3_Witness ==
    /\ lastCall.op = "readLog"
    /\ menuEntries = <<>>
    /\ \E f \in FileIds : addLogResult[f] = "not a character log"
    /\ \E f \in FileIds : addLogResult[f] = "BadLogException"

\* C4: the first readLog after a menu selection, when the reader that was
\* selected serves it, returns no text that was in that reader's file when
\* the selection was made.
C4_FirstReadAfterSwitchSkipsBacklog ==
    (/\ lastCall.op = "readLog"
     /\ lastCall.switch.active
     /\ lastCall.file # 0
     /\ lastCall.file = lastCall.switch.file) =>
        lastCall.lo >= lastCall.switch.len

\* C4 witness: the selection's catchup dropped unread text, and the first
\* readLog after it has just returned text appended since.
C4_Witness ==
    /\ lastCall.op = "readLog"
    /\ lastCall.switch.active
    /\ lastCall.switch.dropped > 0
    /\ lastCall.file = lastCall.switch.file
    /\ lastCall.hi > lastCall.lo

\* C5: for every reader of the registry on which catchup was never called,
\* the lines its readLog calls handed to the extractor are, in order and
\* once each, the lines of its file from the cursor construction left to its
\* cursor now.
C5_ReadsPartitionTheFile ==
    \A i \in 1..Len(logReaders) :
        LET r == logReaders[i]
        IN ~r.caught =>
              /\ r.start <= r.pos
              /\ r.pos <= Len(logFiles[r.file])
              /\ r.consumed = [k \in 1..(r.pos - r.start) |-> r.start + k]

\* C5 witness: a readLog has just returned a non-empty delta from a reader
\* that had consumed an earlier non-empty delta and was never caught up.
C5_Witness ==
    /\ lastCall.op = "readLog"
    /\ lastCall.file # 0
    /\ ~SelectedReader.caught
    /\ SelectedReader.start < lastCall.lo
    /\ lastCall.lo < lastCall.hi

\* C6: a readLog served by the reader a menu selection caught up, with no
\* readLog and no append to its file since the selection, consumes nothing
\* and returns the all-zero tuple.
C6_ReadAfterCatchupIsEmpty ==
    (/\ lastCall.op = "readLog"
     /\ lastCall.switch.active
     /\ lastCall.file # 0
     /\ lastCall.file = lastCall.switch.file
     /\ Len(logFiles[lastCall.file]) = lastCall.switch.len) =>
        /\ lastCall.lo = lastCall.hi
        /\ lastCall.result = ZeroTuple

\* C6 witness: such a readLog has just returned, after a catchup that dropped
\* unread text.
C6_Witness ==
    /\ lastCall.op = "readLog"
    /\ lastCall.switch.active
    /\ lastCall.file # 0
    /\ lastCall.file = lastCall.switch.file
    /\ Len(logFiles[lastCall.file]) = lastCall.switch.len
    /\ lastCall.switch.dropped > 0

\* C7 (as claimed): when addLog replaces the selected character's reader, no
\* line is lost: the old reader has read its file to the end, and the new
\* reader's cursor is not past the header of its file.
C7_ReplacementLosesNoLine ==
    [][(/\ wpc = "replace"
        /\ wpc' = "idle"
        /\ MatchIndex(character) = selectedIndex + 1) =>
           /\ SelectedReader.pos = Len(logFiles[SelectedReader.file])
           /\ newLogReader.start <= Len(Header(fileKind[logPath]))]_vars

\* No identity is in menuEntries twice.
NoDuplicateEntry ==
    \A i, j \in 1..Len(menuEntries) : menuEntries[i] = menuEntries[j] => i = j

\* C8: every step leaves menuEntries as it is or appends one identity to it,
\* and no identity is ever in it twice.
C8_RegistryAppendOnlyNoDuplicates ==
    /\ []NoDuplicateEntry
    /\ [][\/ menuEntries' = menuEntries
          \/ \E c \in Characters : menuEntries' = Append(menuEntries, c)]_vars

\* C8 witness: the registry holds two identities.
C8_Witness ==
    /\ Len(menuEntries) = 2
    /\ wpc = "idle"

\* A complete character log: the header and at least one event line.
ValidLog(f) ==
    /\ f \in FileIds
    /\ fileKind[f] \in {"charA", "charB"}
    /\ Len(logFiles[f]) > Len(Header(fileKind[f]))

\* C9 (as claimed): when playbackLog returns from a valid character log, a
\* playback reader is active.
C9_PlaybackReaderActive ==
    (lastCall.op = "playbackLog" /\ ValidLog(lastCall.file)) =>
        playbackLogReader # None

\* C10 (as claimed): a PlaybackLogReader is constructed from a valid log.
C10_PlaybackReaderConstructed ==
    (lastCall.op = "playbackLog" /\ ValidLog(lastCall.file)) =>
        lastCall.outcome = "ok"

---------------------------------------------------------------------------
\* The sum of two tuples of totals.
Plus(a, b) == [n \in 1..8 |-> a[n] + b[n]]

\* The sum of the magnitudes the client logged of the kind.
RECURSIVE SumOfKind(_, _)
SumOfKind(events, kind) ==
    IF events = <<>> THEN 0
    ELSE (IF Head(events).kind = kind THEN Head(events).value ELSE 0)
         + SumOfKind(Tail(events), kind)

\* The events that are not of the kind.
RECURSIVE WithoutKind(_, _)
WithoutKind(events, kind) ==
    IF events = <<>> THEN <<>>
    ELSE (IF Head(events).kind = kind THEN <<>> ELSE <<Head(events)>>)
         \o WithoutKind(Tail(events), kind)

\* C11 (as claimed): the totals of a text are the sums of the totals of the
\* text before and the text after any point at which a read of it can end.
C11_ExtractorAdditive ==
    totals.read => totals.whole = Plus(totals.before, totals.after)

\* C12: the 'energy drained from' lines of a block add the sum of their
\* magnitudes to capRecieved and to capDamageDone and nothing to any other
\* total: the totals of the block are those of the block without these
\* lines, with that sum added to the sixth and the seventh.
C12_DrainedAddsToBothTotals ==
    totals.read =>
        LET drained == SumOfKind(clientEvents, "nosRecieved")
            others == LogText(WithoutKind(clientEvents, "nosRecieved"))
        IN totals.whole =
              Plus(ReadLogText(others), <<0, 0, 0, 0, 0, drained, drained, 0>>)

\* C12 witness: a block of two 'energy drained from' lines of 10 and 15 was
\* read, and capRecieved and capDamageDone are 25 each.
C12_Witness ==
    /\ totals.read
    /\ clientEvents = <<[kind |-> "nosRecieved", value |-> 10],
                        [kind |-> "nosRecieved", value |-> 15]>>
    /\ totals.whole = <<0, 0, 0, 0, 0, 25, 25, 0>>

\* C13: every line of a block is counted in its own category only.  The
\* totals of a block are the sums of the magnitudes the client logged of
\* each kind, each kind in its own total (the drained energy in two): an
\* outgoing damage line in damageOut, an incoming one in damageIn, an
\* 'energy neutralized' line in capDamageDone or in capDamageRecieved as its
\* color has it; and a block of lines of no kind has the all-zero tuple.
C13_EachLineInItsOwnCategory ==
    totals.read =>
        /\ totals.whole =
              <<SumOfKind(clientEvents, "damageOut"),
                SumOfKind(clientEvents, "damageIn"),
                SumOfKind(clientEvents, "armorRepairedOut")
                    + SumOfKind(clientEvents, "hullRepairedOut")
                    + SumOfKind(clientEvents, "shieldBoostedOut"),
                SumOfKind(clientEvents, "armorRepairedIn")
                    + SumOfKind(clientEvents, "hullRepairedIn")
                    + SumOfKind(clientEvents, "shieldBoostedIn"),
                SumOfKind(clientEvents, "capTransferedOut"),
                SumOfKind(clientEvents, "capTransferedIn")
                    + SumOfKind(clientEvents, "nosRecieved"),
                SumOfKind(clientEvents, "capNeutralizedOut")
                    + SumOfKind(clientEvents, "nosRecieved"),
                SumOfKind(clientEvents, "capNeutralizedIn")
                    + SumOfKind(clientEvents, "nosTaken")>>
        /\ (\A n \in 1..Len(clientEvents) : clientEvents[n].kind \notin Regexes)
              => totals.whole = ZeroTuple

\* C13 witness: a block of an outgoing damage line of 125 and an incoming
\* one of 40 was read: damageOut is 125, damageIn 40, all else 0.
C13_Witness ==
    /\ totals.read
    /\ clientEvents = <<[kind |-> "damageOut", value |-> 125],
                        [kind |-> "damageIn", value |-> 40]>>
    /\ totals.whole = <<125, 40, 0, 0, 0, 0, 0, 0>>

---------------------------------------------------------------------------
C15_ReaderUnderItsOwnIdentity ==
    /\ Len(logReaders) >= Len(menuEntries)
    /\ \A i \in 1..Len(menuEntries) :
          /\ logReaders[i].file \in FileIds
          /\ Identity(logReaders[i].file) = menuEntries[i]
    /\ (/\ lastCall.op = "readLog"
        /\ lastCall.file # 0
        /\ selectedIndex + 1 <= Len(menuEntries)) =>
           Identity(lastCall.file) = menuEntries[selectedIndex + 1]

\* C15 witness: two identities are registered and a readLog has just
\* returned text read under the second index while addLog is running.
C15_Witness ==
    /\ Len(menuEntries) = 2
    /\ selectedIndex = 1
    /\ lastCall.op = "readLog"
    /\ lastCall.hi > lastCall.lo
    /\ menuEntries[1] # menuEntries[2]

\* C18: a readLog served by a reader changes the cursor of the reader at the
\* selected index only and leaves menuEntries, selectedIndex and the other
\* readers as they are; and the cursor of a reader that is not at the
\* selected index moves only in the catchupLog that selects it, which
\* returns none of the text it passes.
C18_ReadLogTouchesSelectedReaderOnly ==
    [][/\ (lastCall'.op = "readLog" /\ lastCall'.file # 0) =>
             /\ menuEntries' = menuEntries
             /\ selectedIndex' = selectedIndex
             /\ Len(logReaders') = Len(logReaders)
             /\ lastCall'.file = logReaders[selectedIndex + 1].file
             /\ \A i \in 1..Len(logReaders) :
                   i # selectedIndex + 1 => logReaders'[i] = logReaders[i]
       /\ \A i \in 1..Len(logReaders) :
             (/\ i # selectedIndex + 1
              /\ logReaders'[i].file = logReaders[i].file
              /\ logReaders'[i].pos # logReaders[i].pos) =>
                 /\ lastCall'.op = "catchupLog"
                 /\ selectedIndex' + 1 = i
                 /\ lastCall'.result = ZeroTuple
                 /\ logReaders'[i].pos = Len(logFiles[logReaders[i].file])]_vars

\* C18 witness: a readLog has just returned text of the selected reader
\* while another reader of the registry has text it has not read.
C18_Witness ==
    /\ lastCall.op = "readLog"
    /\ lastCall.hi > lastCall.lo
    /\ \E i \in 1..Len(logReaders) :
          /\ i # selectedIndex + 1
          /\ logReaders[i].pos < Len(logFiles[logReaders[i].file])

\* C19: every catchupLog, and so every selection the menu makes, calls the
\* animator's catchup exactly once and before the reader's catchup, which it
\* calls exactly when a reader is at the selected index.
C19_AnimatorNotifiedOnceAndFirst ==
    lastCall.op = "catchupLog" =>
        LET calls == lastCall.calls
            At(name) == {n \in 1..Len(calls) : calls[n] = name}
        IN /\ Cardinality(At("animator.catchup")) = 1
           /\ \A n \in At("animator.catchup"), m \in At("LogReader.catchup") : n < m
           /\ Cardinality(At("LogReader.catchup")) =
                 (IF ReaderLookup(selectedIndex) = None THEN 1 ELSE 0)
           /\ \A n \in At("selectedIndex.set") : n = 1

\* C19 witness: the menu has just changed the selection, and its catchupLog
\* called the animator and then the reader.
C19_Witness ==
    /\ lastCall.op = "catchupLog"
    /\ lastCall.was # selectedIndex
    /\ lastCall.calls = <<"selectedIndex.set", "animator.catchup", "LogReader.catchup">>

---------------------------------------------------------------------------
\* C17 (as claimed): a file created at runtime is left out of the registry
\* only if its completed header has no Listener line or is collided: addLog
\* turns down no file into which a client writes a character's header.
C17_CharacterLogIsNotIgnored ==
    \A f \in FileIds :
        addLogResult[f] \in {"not a character log", "BadLogException", "AttributeError"}
            => fileKind[f] \in {"nochar", "collided"}

\* The name is one the client's naming makes, of the last 24 hours.
Qualifying(f) ==
    /\ Len(fileName[f]) = 2
    /\ fileName[f][1] \in Stamps
    /\ fileName[f][2] = ".txt"
    /\ Strptime(<<fileName[f][1]>>).time >= UtcNow - 24

\* The qualifying files that declare identity c and are not collided.
LogsOf(c) ==
    {f \in FileIds : /\ Qualifying(f)
                     /\ Identity(f) = c
                     /\ ReadLine(logFiles[f], 6) # SEPARATOR}

Oldest(fs) == CHOOSE f \in fs : \A g \in fs : f <= g

Newest(fs) == CHOOSE f \in fs : \A g \in fs : g <= f

\* C16 (as claimed): after the scan every identity that has a qualifying,
\* non-collided file has exactly one entry and no other identity has one,
\* each entry's reader is over the most recently modified such file of its
\* identity, the entries are in the order in which their identities first
\* appear among these files, and addLog was not called on a file whose name
\* does not qualify.
C16_ScanRegistersNewestQualifyingFiles ==
    scanpc = "done" =>
        /\ \A c \in Characters :
              Cardinality({i \in 1..Len(menuEntries) : menuEntries[i] = c})
                 = (IF LogsOf(c) # {} THEN 1 ELSE 0)
        /\ Len(logReaders) = Len(menuEntries)
        /\ \A i \in 1..Len(menuEntries) :
              /\ LogsOf(menuEntries[i]) # {}
              /\ logReaders[i].file = Newest(LogsOf(menuEntries[i]))
        /\ \A i, j \in 1..Len(menuEntries) :
              (i < j /\ LogsOf(menuEntries[i]) # {} /\ LogsOf(menuEntries[j]) # {})
                 => Oldest(LogsOf(menuEntries[i])) < Oldest(LogsOf(menuEntries[j]))
        /\ \A f \in FileIds : ~Qualifying(f) => addLogResult[f] = "none"

====
